---- MODULE Spec2Model ----
(***************************************************************************)
(* Model of update_SCCconfiguration_v0.7.0: the script that reconciles the *)
(* channel table of a calibration report (channel_data) with the           *)
(* HoiChannels / PolarizationCrosstalkParameter sections of a lidar         *)
(* configuration CSV and writes NEW_<csv>.                                  *)
(*                                                                          *)
(* Representation.  A text is a sequence of characters, each character a    *)
(* one-letter string; a word that the program only ever compares as a whole *)
(* (a section name, a column name, an opaque cell text) is written as ONE   *)
(* character holding the whole word.  A line of a file is the sequence of   *)
(* its comma-separated fields (str.split(",")), the final "\n" implied.     *)
(* The empty line is therefore << <<>> >>.  Python's None / pandas' NaN is  *)
(* the cell None.                                                           *)
(***************************************************************************)
EXTENDS Integers, Sequences, FiniteSets, TLC

VARIABLES
    lines,            \* f.readlines() of CSV_FILE                     (l.91)
    channel_data,     \* merged report records, in dict order          (l.79-87)
    depol_date,       \* calibration date text or None                 (l.53-60)
    pc,               \* position of the script
    hoi_start,        \* 0-based index of the HoiChannels marker, -1 = None
    polar_start,      \* 0-based index of the Polarization marker, -1 = None
    hoi_columns,      \* column names of HoiChannels
    original_hoi_df,  \* parsed HoiChannels rows
    polar_columns,    \* column names of PolarizationCrosstalkParameter
    polar_df,         \* parsed polarization rows (input, then cleanup)
    i,                \* 1-based position of the matching loop in channel_data
    atlas_to_csv_id,  \* the correspondence: ATLAS ID -> csv id
    used_csv_ids,     \* ids consumed so far
    log_lines,        \* the match log
    matched_data,     \* csv id -> report record
    updated_hoi_df,   \* merged rows, reindexed on hoi_columns
    polar_df_clean,   \* derived polarization rows
    output_file       \* OUTPUT_FILE: [exists, lines]

vars == <<lines, channel_data, depol_date, pc, hoi_start, polar_start,
          hoi_columns, original_hoi_df, polar_columns, polar_df, i,
          atlas_to_csv_id, used_csv_ids, log_lines, matched_data,
          updated_hoi_df, polar_df_clean, output_file>>

----------------------------------------------------------------------------
(* Characters, numbers and their texts                                      *)

None == <<"<None>">>
Empty == <<>>
Space == " "

DigitChars == <<"0", "1", "2", "3", "4", "5", "6", "7", "8", "9">>

IsDigit(c) == \E d \in 1..10 : DigitChars[d] = c

DigitVal(c) == (CHOOSE d \in 1..10 : DigitChars[d] = c) - 1

AllDigits(s) == \A k \in 1..Len(s) : IsDigit(s[k])

RECURSIVE NatOf(_)
NatOf(s) ==
    IF s = <<>> THEN 0
    ELSE NatOf(SubSeq(s, 1, Len(s) - 1)) * 10 + DigitVal(s[Len(s)])

RECURSIVE Digits(_)
Digits(n) ==
    IF n < 10 THEN <<DigitChars[n + 1]>>
    ELSE Digits(n \div 10) \o <<DigitChars[(n % 10) + 1]>>

RECURSIVE Pow10(_)
Pow10(d) == IF d = 0 THEN 1 ELSE 10 * Pow10(d - 1)

\* str.lstrip / str.rstrip / str.strip
RECURSIVE LStrip(_)
LStrip(s) ==
    IF s # <<>> /\ s[1] = Space THEN LStrip(SubSeq(s, 2, Len(s))) ELSE s

RECURSIVE RStrip(_)
RStrip(s) ==
    IF s # <<>> /\ s[Len(s)] = Space THEN RStrip(SubSeq(s, 1, Len(s) - 1)) ELSE s

Strip(s) == RStrip(LStrip(s))

\* int(text): the value, or -1 for ValueError.  Signs and underscores are
\* outside the alphabet of the model.
PyInt(s) ==
    LET t == Strip(s)
    IN  IF t # <<>> /\ AllDigits(t) THEN NatOf(t) ELSE -1

\* A decimal number m / 10^d with no trailing zero in the fraction.
RECURSIVE Normal(_, _)
Normal(m, d) ==
    IF d > 0 /\ m % 10 = 0 THEN Normal(m \div 10, d - 1)
    ELSE [ok |-> TRUE, m |-> m, d |-> d]

NotANumber == [ok |-> FALSE, m |-> 0, d |-> 0]

DotAt(s) == {k \in 1..Len(s) : s[k] = "."}

\* float(text): digits with at most one ".", at least one digit; anything
\* else (None, the empty text, a word) raises and yields NotANumber.
PyFloat(s) ==
    LET t    == Strip(s)
        dots == DotAt(t)
        dot  == IF dots = {} THEN Len(t) + 1 ELSE CHOOSE k \in dots : TRUE
        ip   == SubSeq(t, 1, dot - 1)
        fp   == SubSeq(t, dot + 1, Len(t))
    IN  IF /\ Cardinality(dots) <= 1
           /\ AllDigits(ip) /\ AllDigits(fp)
           /\ Len(ip) + Len(fp) >= 1
        THEN Normal(NatOf(ip \o fp), Len(fp))
        ELSE NotANumber

\* round(x) of Python 3: to nearest, ties to even.
PyRound(x) ==
    LET p == Pow10(x.d)
        q == x.m \div p
        r == x.m % p
    IN  IF 2 * r < p THEN q
        ELSE IF 2 * r > p THEN q + 1
        ELSE IF q % 2 = 0 THEN q ELSE q + 1

RECURSIVE ZeroPad(_, _)
ZeroPad(s, n) == IF Len(s) >= n THEN s ELSE ZeroPad(<<"0">> \o s, n)

\* str(float): shortest text, always with a fraction.
ReprFloat(x) ==
    LET p == Pow10(x.d)
    IN  Digits(x.m \div p) \o <<".">> \o
        (IF x.d = 0 THEN <<"0">> ELSE ZeroPad(Digits(x.m % p), x.d))

----------------------------------------------------------------------------
(* HELPERS (l.34-49)                                                        *)

normalize_wavelength(w) ==
    IF PyFloat(w).ok THEN PyRound(PyFloat(w)) ELSE -1

\* s[k] for a 0-based k inside the text
At(s, k) == s[k + 1]

parse_atlas_id(atlas_id) ==
    [wavelength |-> SubSeq(atlas_id, 1, 4),
     range      |-> At(atlas_id, 4),
     scattering |-> At(atlas_id, 5),
     mode       |-> At(atlas_id, 6),
     suffix     |-> IF Len(atlas_id) > 7 THEN <<At(atlas_id, 7)>> ELSE <<>>]

----------------------------------------------------------------------------
(* Python / pandas containers                                               *)

Min2(a, b) == IF a < b THEN a ELSE b
Max2(a, b) == IF a > b THEN a ELSE b

\* s[a:b] with 0-based bounds, negative bounds counted from the end
PySlice(s, a, b) ==
    LET n  == Len(s)
        lo == IF a < 0 THEN Max2(a + n, 0) ELSE Min2(a, n)
        hi == IF b < 0 THEN Max2(b + n, 0) ELSE Min2(b, n)
    IN  SubSeq(s, lo + 1, hi)

\* line.strip() seen on the fields of the line: only the outer ends can lose
\* white space, a comma stops the stripping.
LineStrip(line) ==
    [k \in 1..Len(line) |->
        LET a == IF k = 1 THEN LStrip(line[k]) ELSE line[k]
        IN  IF k = Len(line) THEN RStrip(a) ELSE a]

\* truth value of line.strip()
NonBlank(line) == LineStrip(line) # << <<>> >>

\* dict(zip(columns, fields)): the shorter list decides, a later duplicate
\* column wins
ZipDict(columns, fields) ==
    LET n  == Min2(Len(columns), Len(fields))
        ks == {columns[k] : k \in 1..n}
    IN  [c \in ks |->
            fields[CHOOSE k \in 1..n :
                      /\ columns[k] = c
                      /\ \A j \in 1..n : columns[j] = c => j <= k]]

\* dict.get / Series.get
Get(d, key, default) == IF key \in DOMAIN d THEN d[key] ELSE default

\* pd.DataFrame(list of dicts): every row gets every column, NaN where absent
FrameColumns(rows) == UNION {DOMAIN rows[k] : k \in 1..Len(rows)}

DataFrame(rows) ==
    [k \in 1..Len(rows) |->
        [c \in FrameColumns(rows) |-> Get(rows[k], c, None)]]

\* df.reindex(columns=cols) followed by to_csv(header=False): one line per
\* row, the cells in the order of cols, NaN/None written as the empty text
CsvCell(v) == IF v = None THEN Empty ELSE v

Reindex(rows, cols) ==
    [k \in 1..Len(rows) |-> [c \in {cols[j] : j \in 1..Len(cols)} |-> Get(rows[k], c, None)]]

ToCsv(rows, cols) ==
    [k \in 1..Len(rows) |-> [j \in 1..Len(cols) |-> CsvCell(Get(rows[k], cols[j], None))]]

----------------------------------------------------------------------------
(* READ CSV FILE (l.89-108)                                                 *)

HoiChannels == <<"HoiChannels">>
PolarizationCrosstalkParameter == <<"PolarizationCrosstalkParameter">>
Products == <<"Products">>

\* section_indices.get(name): the dict comprehension keeps the LAST line whose
\* stripped text is the name; -1 stands for None
section_indices(ls, name) ==
    LET hits == {k \in 1..Len(ls) : LineStrip(ls[k]) = <<name>>}
    IN  IF hits = {} THEN -1
        ELSE (CHOOSE k \in hits : \A j \in hits : j <= k) - 1

\* [h.strip() for h in lines[start + 1].strip().split(",")]
HeaderColumns(ls, start) ==
    LET h == LineStrip(ls[start + 2])
    IN  [k \in 1..Len(h) |-> Strip(h[k])]

\* [dict(zip(columns, line.strip().split(","))) for line in data if line.strip()]
ParseRows(columns, data) ==
    LET kept == SelectSeq(data, NonBlank)
    IN  DataFrame([k \in 1..Len(kept) |-> ZipDict(columns, LineStrip(kept[k]))])

hoi_data_lines(ls, hs, ps) == PySlice(ls, hs + 2, ps - 1)

polar_data_lines(ls, ps) == PySlice(ls, ps + 2, Len(ls))

Absent == [exists |-> FALSE, lines |-> <<>>]

ReadDefaults ==
    /\ UNCHANGED <<lines, channel_data, depol_date, i, atlas_to_csv_id,
                   used_csv_ids, log_lines, matched_data, updated_hoi_df,
                   polar_df_clean, output_file>>

\* l.97-98: raise ValueError("HoiChannels section not found in CSV.")
ReadCsvNoHoi ==
    /\ pc = "read"
    /\ section_indices(lines, HoiChannels) = -1
    /\ pc' = "fatal"
    /\ hoi_start' = -1
    /\ polar_start' = section_indices(lines, PolarizationCrosstalkParameter)
    /\ UNCHANGED <<hoi_columns, original_hoi_df, polar_columns, polar_df>>
    /\ ReadDefaults

\* l.99-100: raise ValueError("PolarizationCrosstalkParameter section not found")
ReadCsvNoPolar ==
    /\ pc = "read"
    /\ section_indices(lines, HoiChannels) # -1
    /\ section_indices(lines, PolarizationCrosstalkParameter) = -1
    /\ pc' = "fatal"
    /\ hoi_start' = section_indices(lines, HoiChannels)
    /\ polar_start' = -1
    /\ UNCHANGED <<hoi_columns, original_hoi_df, polar_columns, polar_df>>
    /\ ReadDefaults

\* l.93-108 with both markers found
ReadCsv ==
    /\ pc = "read"
    /\ section_indices(lines, HoiChannels) # -1
    /\ section_indices(lines, PolarizationCrosstalkParameter) # -1
    /\ hoi_start' = section_indices(lines, HoiChannels)
    /\ polar_start' = section_indices(lines, PolarizationCrosstalkParameter)
    /\ hoi_columns' = HeaderColumns(lines, hoi_start')
    /\ original_hoi_df' =
          ParseRows(hoi_columns', hoi_data_lines(lines, hoi_start', polar_start'))
    /\ polar_columns' = HeaderColumns(lines, polar_start')
    /\ polar_df' = ParseRows(polar_columns', polar_data_lines(lines, polar_start'))
    /\ pc' = "match"
    /\ ReadDefaults

----------------------------------------------------------------------------
(* REVERSED MATCHING: PDF is reference, CSV is matched (l.110-138)          *)

c_id == <<"id">>
c_mode == <<"_detection_mode_id_id">>
c_if_center == <<"if_center">>

an == <<"an">>
pcnt == <<"pc">>

LogEntry(kind, aid, csv_id) == [kind |-> kind, aid |-> aid, csv_id |-> csv_id]

match_wl(aid) == PyInt(parse_atlas_id(aid).wavelength)

match_mode(aid) == IF parse_atlas_id(aid).mode = "a" THEN an ELSE pcnt

\* the row filter without its third condition
possible_matches_ignoring_used(df, aid, used) ==
    {k \in 1..Len(df) :
        /\ df[k][c_mode] = match_mode(aid)
        /\ normalize_wavelength(df[k][c_if_center]) = match_wl(aid)}

\* the row filter of l.125-129, as the positions of the rows it keeps
possible_matches(df, aid, used) ==
    {k \in 1..Len(df) :
        /\ df[k][c_mode] = match_mode(aid)
        /\ normalize_wavelength(df[k][c_if_center]) = match_wl(aid)
        /\ df[k][c_id] \notin used}

\* possible_matches.iloc[-1]
LastOf(S) == CHOOSE k \in S : \A j \in S : k >= j

\* possible_matches.iloc[0]
First(S) == CHOOSE k \in S : \A j \in S : k <= j

\* original_hoi_df[...] raises KeyError when the frame lacks the column
\* (a frame built from no rows has no columns at all)
HasMatchColumns(df) ==
    {c_mode, c_if_center, c_id} \subseteq FrameColumns(df)

MatchFrame ==
    UNCHANGED <<lines, channel_data, depol_date, hoi_start, polar_start,
                hoi_columns, original_hoi_df, polar_columns, polar_df,
                updated_hoi_df, polar_df_clean, output_file>>

InLoop == pc = "match" /\ i <= Len(channel_data)

\* l.118-122: the wavelength prefix is no integer
MatchSkip ==
    /\ InLoop
    /\ match_wl(channel_data[i].aid) = -1
    /\ log_lines' = Append(log_lines, LogEntry("Skipped", channel_data[i].aid, None))
    /\ i' = i + 1
    /\ UNCHANGED <<pc, atlas_to_csv_id, used_csv_ids, matched_data>>
    /\ MatchFrame

\* l.125-129 on a frame without the columns: uncaught KeyError
MatchKeyError ==
    /\ InLoop
    /\ match_wl(channel_data[i].aid) # -1
    /\ ~HasMatchColumns(original_hoi_df)
    /\ pc' = "fatal"
    /\ UNCHANGED <<i, log_lines, atlas_to_csv_id, used_csv_ids, matched_data>>
    /\ MatchFrame

\* l.131-136
MatchFound ==
    /\ InLoop
    /\ match_wl(channel_data[i].aid) # -1
    /\ HasMatchColumns(original_hoi_df)
    /\ LET aid == channel_data[i].aid
           pm  == possible_matches(original_hoi_df, aid, used_csv_ids)
       IN  /\ pm # {}
           /\ LET row == original_hoi_df[First(pm)]
              IN  /\ log_lines' = Append(log_lines, LogEntry("Matched", aid, row[c_id]))
                  /\ used_csv_ids' = used_csv_ids \cup {row[c_id]}
                  /\ atlas_to_csv_id' =
                        [a \in DOMAIN atlas_to_csv_id \cup {aid} |->
                            IF a = aid THEN row[c_id] ELSE atlas_to_csv_id[a]]
                  /\ matched_data' =
                        [c \in DOMAIN matched_data \cup {row[c_id]} |->
                            IF c = row[c_id] THEN channel_data[i].match
                            ELSE matched_data[c]]
    /\ i' = i + 1
    /\ UNCHANGED pc
    /\ MatchFrame

\* l.137-138
MatchNone ==
    /\ InLoop
    /\ match_wl(channel_data[i].aid) # -1
    /\ HasMatchColumns(original_hoi_df)
    /\ possible_matches(original_hoi_df, channel_data[i].aid, used_csv_ids) = {}
    /\ log_lines' = Append(log_lines, LogEntry("Not matched", channel_data[i].aid, None))
    /\ i' = i + 1
    /\ UNCHANGED <<pc, atlas_to_csv_id, used_csv_ids, matched_data>>
    /\ MatchFrame

----------------------------------------------------------------------------
(* Update HoiChannels while keeping order (l.140-161)                       *)

c_if_fwhm == <<"if_fwhm">>
c_emission_wavelength == <<"emission_wavelength">>
c_dead_time == <<"dead_time">>
c_first_signal_rangebin == <<"first_signal_rangebin">>
c_trigger_delay == <<"trigger_delay">>
c_background_mode == <<"_background_mode_id_id">>
c_min_height == <<"_Minimum_channel_height_">>
c_max_height == <<"_Maximum_channel_height_">>

PreTrigger == <<"Pre-Trigger">>

\* row[col] = value on a Series: sets the cell, adding the label when new
SetCell(row, col, value) ==
    [c \in DOMAIN row \cup {col} |-> IF c = col THEN value ELSE row[c]]

\* l.153: 0 if match.get("Background Mode") == "Pre-Trigger" else 1
background_mode_id(match) ==
    IF Get(match, "Background Mode", None) = PreTrigger THEN <<"0">> ELSE <<"1">>

\* l.146-155: the nine assignments on a matched row
MergeRow(row, match) ==
    LET r1 == SetCell(row, c_if_center,
                 Get(match, "Interference filter center", Get(row, c_if_center, Empty)))
        r2 == SetCell(r1, c_if_fwhm,
                 Get(match, "Interference filter FWHM", Get(r1, c_if_fwhm, Empty)))
        r3 == SetCell(r2, c_emission_wavelength,
                 Get(match, "Emission Wavelength", Get(r2, c_emission_wavelength, Empty)))
        r4 == SetCell(r3, c_dead_time,
                 Get(match, "Dead time", Get(r3, c_dead_time, Empty)))
        r5 == SetCell(r4, c_first_signal_rangebin,
                 Get(match, "First signal rangebin", Get(r4, c_first_signal_rangebin, Empty)))
        r6 == SetCell(r5, c_trigger_delay,
                 Get(match, "Trigger delay", Get(r5, c_trigger_delay, Empty)))
        r7 == SetCell(r6, c_background_mode, background_mode_id(match))
        r8 == SetCell(r7, c_min_height, Get(match, "Minimum channel height", Empty))
        r9 == SetCell(r8, c_max_height, Get(match, "Maximum channel height", Empty))
    IN  r9

\* the loop run over the matched rows first, then over the others
updated_rows_matched_first(df, md) ==
    LET IsMatched(r) == r[c_id] \in DOMAIN md
        NotMatched(r) == r[c_id] \notin DOMAIN md
        m == SelectSeq(df, IsMatched)
    IN  [k \in 1..Len(m) |-> MergeRow(m[k], md[m[k][c_id]])]
        \o SelectSeq(df, NotMatched)

\* the loop testing `if matched_data:` instead of `if cid in matched_data:`
updated_rows_any_match(df, md) ==
    [k \in 1..Len(df) |->
        IF DOMAIN md # {}
        THEN MergeRow(df[k], md[IF df[k][c_id] \in DOMAIN md THEN df[k][c_id]
                                ELSE CHOOSE c \in DOMAIN md : TRUE])
        ELSE df[k]]

\* l.141-156: one output row per row of original_hoi_df, in its order
updated_rows(df, md) ==
    [k \in 1..Len(df) |->
        IF df[k][c_id] \in DOMAIN md THEN MergeRow(df[k], md[df[k][c_id]])
        ELSE df[k]]

InSeq(x, s) == \E k \in 1..Len(s) : s[k] = x

\* l.158-159
ExtendColumns(cols) ==
    IF InSeq(c_min_height, cols) THEN cols
    ELSE cols \o <<c_min_height, c_max_height>>

UpdateHoiChannels ==
    /\ pc = "match"
    /\ i > Len(channel_data)
    /\ hoi_columns' = ExtendColumns(hoi_columns)
    /\ updated_hoi_df' =
          Reindex(DataFrame(updated_rows(original_hoi_df, matched_data)), hoi_columns')
    /\ pc' = "polar"
    /\ UNCHANGED <<lines, channel_data, depol_date, hoi_start, polar_start,
                   original_hoi_df, polar_columns, polar_df, i, atlas_to_csv_id,
                   used_csv_ids, log_lines, matched_data, polar_df_clean,
                   output_file>>

----------------------------------------------------------------------------
(* POLARIZATION SECTION (l.163-175)                                         *)

c_channel_id == <<"channel_id">>
c_g == <<"g">>
c_h == <<"h">>
c_measurement_date == <<"measurement_date">>

notna(v) == v # None

\* l.167-171
PolarEntry(cols, csv_id, match, date) ==
    LET e0 == [c \in {cols[k] : k \in 1..Len(cols)} |-> Empty]
        e1 == SetCell(e0, c_channel_id, csv_id)
        e2 == SetCell(e1, c_g, match["G"])
        e3 == SetCell(e2, c_h, match["H"])
    IN  SetCell(e3, c_measurement_date, date)

\* l.166: the records that get an entry
HasPolarEntry(rec, a2c) ==
    /\ rec.aid \in DOMAIN a2c
    /\ notna(Get(rec.match, "G", None))
    /\ notna(Get(rec.match, "H", None))

EntryTest(rec) == HasPolarEntry(rec, atlas_to_csv_id)

polar_updates ==
    LET recs == SelectSeq(channel_data, EntryTest)
    IN  [k \in 1..Len(recs) |->
            PolarEntry(polar_columns, atlas_to_csv_id[recs[k].aid],
                       recs[k].match, depol_date)]

\* l.175
CleanTest(row) == notna(row[c_g]) /\ notna(row[c_h])

PolarizationSection ==
    /\ pc = "polar"
    /\ polar_df_clean' = SelectSeq(Reindex(polar_updates, polar_columns), CleanTest)
    /\ pc' = "save"
    /\ UNCHANGED <<lines, channel_data, depol_date, hoi_start, polar_start,
                   hoi_columns, original_hoi_df, polar_columns, polar_df, i,
                   atlas_to_csv_id, used_csv_ids, log_lines, matched_data,
                   updated_hoi_df, output_file>>

----------------------------------------------------------------------------
(* SAVE OUTPUT (l.177-188)                                                  *)

BlankLine == << <<>> >>

\* list.index(line): 0-based position of the first equal line, -1 = ValueError
IndexOf(ls, line) ==
    LET hits == {k \in 1..Len(ls) : ls[k] = line}
    IN  IF hits = {} THEN -1 ELSE First(hits) - 1

\* what l.179-187 have written when l.188 evaluates lines.index("Products\n")
WrittenBeforeRemainder ==
    PySlice(lines, 0, hoi_start + 1)
    \o <<hoi_columns>>
    \o ToCsv(updated_hoi_df, hoi_columns)
    \o <<BlankLine>>
    \o << <<PolarizationCrosstalkParameter>> >>
    \o <<polar_columns>>
    \o ToCsv(polar_df_clean, polar_columns)
    \o <<BlankLine>>
    \o << <<Products>> >>

\* lines[lines.index("Products\n"):], the marker line copied as well
RemainderWithMarker(ls) == PySlice(ls, IndexOf(ls, <<Products>>), Len(ls))

\* l.188: lines[lines.index("Products\n") + 1:]
Remainder(ls) == PySlice(ls, IndexOf(ls, <<Products>>) + 1, Len(ls))

SaveFrame ==
    UNCHANGED <<lines, channel_data, depol_date, hoi_start, polar_start,
                hoi_columns, original_hoi_df, polar_columns, polar_df, i,
                atlas_to_csv_id, used_csv_ids, log_lines, matched_data,
                updated_hoi_df, polar_df_clean>>

SaveOutput ==
    /\ pc = "save"
    /\ IndexOf(lines, <<Products>>) # -1
    /\ output_file' =
          [exists |-> TRUE,
           lines  |-> WrittenBeforeRemainder \o Remainder(lines)]
    /\ pc' = "cleanup"
    /\ SaveFrame

\* no line equals "Products\n": ValueError inside the with block, after the
\* file has been opened for writing and l.179-187 have run
SaveOutputNoProducts ==
    /\ pc = "save"
    /\ IndexOf(lines, <<Products>>) = -1
    /\ output_file' = [exists |-> TRUE, lines |-> WrittenBeforeRemainder]
    /\ pc' = "fatal"
    /\ SaveFrame

----------------------------------------------------------------------------
(* CLEANUP EMPTY POLAR ROWS (l.190-209)                                     *)

\* pd.read_csv on header + data: blank lines are skipped, a short row is
\* filled with NaN
CsvRecords(header, data) ==
    LET kept == SelectSeq(data, NonBlank)
    IN  [k \in 1..Len(kept) |->
            [j \in 1..Len(header) |->
                IF j <= Len(kept[k]) THEN kept[k][j] ELSE Empty]]

\* a row with more fields than the header: ParserError
TooManyFields(header, data) ==
    \E k \in 1..Len(data) : NonBlank(data[k]) /\ Len(data[k]) > Len(header)

\* read_csv's missing-value test; of its default NA words only the empty
\* field is in the alphabet of the model
IsNA(v) == v = Empty

IsIntText(v) == Strip(v) # <<>> /\ AllDigits(Strip(v))

\* the dtype read_csv infers for one column from ALL its cells
ColumnKind(cells) ==
    IF cells = {} THEN "object"
    ELSE IF \A v \in cells : ~IsNA(v) /\ IsIntText(v) THEN "int64"
    ELSE IF \A v \in cells : IsNA(v) \/ PyFloat(v).ok THEN "float64"
    ELSE "object"

KindOf(recs, j) == ColumnKind({recs[k][j] : k \in 1..Len(recs)})

\* l.200: g.notna() & g.astype(str).str.strip().ne("")
KeepRow(kind, v) ==
    /\ ~IsNA(v)
    /\ kind = "object" => Strip(v) # Empty

\* l.205: fillna("").astype(str) of a parsed cell
Rendered(kind, v) ==
    IF IsNA(v) THEN Empty
    ELSE IF kind = "int64" THEN Digits(PyInt(v))
    ELSE IF kind = "float64" THEN ReprFloat(PyFloat(v))
    ELSE v

\* the polar_df of l.199-200 as the lines l.205 writes
CleanedRows(header, data) ==
    LET recs == CsvRecords(header, data)
        g    == IndexOf(header, c_g) + 1
        kept == {k \in 1..Len(recs) : KeepRow(KindOf(recs, g), recs[k][g])}
        pos  == [k \in 1..Len(recs) |-> Cardinality({j \in kept : j <= k})]
    IN  [n \in 1..Cardinality(kept) |->
            LET k == CHOOSE k \in kept : pos[k] = n
            IN  [j \in 1..Len(header) |-> Rendered(KindOf(recs, j), recs[k][j])]]

\* the pass raises, and is caught, before the file is reopened for writing:
\* a marker is not found (ValueError), there is no header line (IndexError),
\* the header has no g (KeyError), a row is too long (ParserError)
CleanupRaises(all_lines) ==
    LET ps == IndexOf(all_lines, <<PolarizationCrosstalkParameter>>)
        px == IndexOf(all_lines, <<Products>>)
    IN  \/ ps = -1
        \/ px = -1
        \/ ps + 2 > Len(all_lines)
        \/ IndexOf(all_lines[ps + 2], c_g) = -1
        \/ TooManyFields(all_lines[ps + 2], PySlice(all_lines, ps + 2, px))

\* the whole pass on the lines of the file
Cleanup(all_lines) ==
    LET ps == IndexOf(all_lines, <<PolarizationCrosstalkParameter>>)
        px == IndexOf(all_lines, <<Products>>)
        polar_header == all_lines[ps + 2]
        polar_data   == PySlice(all_lines, ps + 2, px)
    IN  IF CleanupRaises(all_lines) THEN all_lines
        ELSE PySlice(all_lines, 0, ps + 1)
             \o <<polar_header>>
             \o CleanedRows(polar_header, polar_data)
             \o <<BlankLine>>
             \o PySlice(all_lines, px, Len(all_lines))

\* the frame l.199-200 leave in polar_df
CleanedFrame(all_lines) ==
    LET ps == IndexOf(all_lines, <<PolarizationCrosstalkParameter>>)
        px == IndexOf(all_lines, <<Products>>)
        h  == all_lines[ps + 2]
        r  == CleanedRows(h, PySlice(all_lines, ps + 2, px))
    IN  IF CleanupRaises(all_lines) THEN polar_df
        ELSE [k \in 1..Len(r) |-> ZipDict(h, r[k])]

CleanupPass ==
    /\ pc = "cleanup"
    /\ output_file' = [exists |-> TRUE, lines |-> Cleanup(output_file.lines)]
    /\ polar_df' = CleanedFrame(output_file.lines)
    /\ polar_start' =
          IF IndexOf(output_file.lines, <<PolarizationCrosstalkParameter>>) = -1
          THEN polar_start
          ELSE IndexOf(output_file.lines, <<PolarizationCrosstalkParameter>>)
    /\ pc' = "done"
    /\ UNCHANGED <<lines, channel_data, depol_date, hoi_start, hoi_columns,
                   original_hoi_df, polar_columns, i, atlas_to_csv_id,
                   used_csv_ids, log_lines, matched_data, updated_hoi_df,
                   polar_df_clean>>

----------------------------------------------------------------------------
(* Inputs: the two documents the script finds in its directory              *)

MaxRecords == 2
MaxRows == 2

\* texts of the alphabet
T7 == <<"7">>
T8 == <<"8">>
T9 == <<"9">>
W532 == <<"5", "3", "2">>
W531_98 == <<"5", "3", "1", ".", "9", "8">>
W532_5 == <<"5", "3", "2", ".", "5">>
W533_5 == <<"5", "3", "3", ".", "5">>
Wword == <<"n/a">>
G1_50 == <<"1", ".", "5", "0">>
H0_98 == <<"0", ".", "9", "8">>
Blank1 == <<" ">>
Date == <<"25/06/2025 00:00">>

\* ATLAS IDs: wavelength(4) range scattering mode [suffix]
ID_an532 == <<"0", "5", "3", "2", "x", "p", "a", "r">>
ID_an532s == <<"0", "5", "3", "2", "x", "s", "a">>
ID_pc532 == <<"0", "5", "3", "2", "x", "p", "p">>
ID_an534 == <<"0", "5", "3", "4", "x", "p", "a">>
ID_bad == <<"0", "5", "x", "2", "x", "p", "a">>

\* the columns l.65-69 give every channel-table row, and l.73-76 every
\* background-table row
ChannelKeys ==
    {"ATLAS ID", "SCC ID", "Minimum channel height", "Maximum channel height",
     "Dead time", "First signal rangebin", "Trigger delay", "Emission Wavelength",
     "Interference filter center", "Interference filter FWHM", "G", "H"}

BackgroundKeys ==
    {"ATLAS ID", "SCC ID", "Background Low Bin", "Background High Bin",
     "Background Mode", "Background Low", "Background High"}

\* a report record: row.to_dict() of the channel table, updated with the
\* background row when bg # None (l.80-87)
Record(aid, g, h, dead, minh, bg) ==
    [aid   |-> aid,
     match |->
        [k \in (IF bg = None THEN ChannelKeys ELSE ChannelKeys \cup BackgroundKeys) |->
            CASE k = "ATLAS ID" -> aid
              [] k = "SCC ID" -> <<"scc">>
              [] k = "Minimum channel height" -> minh
              [] k = "Maximum channel height" -> <<"9", "0", "0", "0">>
              [] k = "Dead time" -> dead
              [] k = "First signal rangebin" -> <<"3">>
              [] k = "Trigger delay" -> <<"0", ".", "2">>
              [] k = "Emission Wavelength" -> <<"5", "3", "2", ".", "1">>
              [] k = "Interference filter center" -> <<"5", "3", "2", ".", "0", "5">>
              [] k = "Interference filter FWHM" -> <<"0", ".", "5">>
              [] k = "G" -> g
              [] k = "H" -> h
              [] k = "Background Mode" -> bg
              [] OTHER -> <<"1">>]]

DefaultRecord(aid) == Record(aid, G1_50, H0_98, <<"4">>, <<"1", "0", "0">>, PreTrigger)

\* sequences of at most n members of S, no member twice (a dict has each
\* key once)
RECURSIVE DistinctSeqs(_, _)
DistinctSeqs(S, n) ==
    IF n = 0 THEN {<<>>}
    ELSE LET shorter == DistinctSeqs(S, n - 1)
         IN  shorter \cup
             {Append(q[1], q[2]) :
                 q \in {r \in {t \in shorter : Len(t) = n - 1} \X S :
                           ~InSeq(r[2], r[1])}}

RECURSIVE SeqsUpTo(_, _)
SeqsUpTo(S, n) ==
    IF n = 0 THEN {<<>>}
    ELSE LET shorter == SeqsUpTo(S, n - 1)
         IN  shorter \cup
             {Append(q, x) : q \in {r \in shorter : Len(r) = n - 1}, x \in S}

DistinctAids(recs) ==
    \A a, b \in 1..Len(recs) : recs[a].aid = recs[b].aid => a = b

HoiHeader ==
    <<c_id, c_mode, c_if_center, c_if_fwhm, c_emission_wavelength, c_dead_time,
      c_first_signal_rangebin, c_trigger_delay, c_background_mode>>

HoiHeaderWithHeights == HoiHeader \o <<c_min_height, c_max_height>>

PolarHeader == <<<<"id">>, c_channel_id, c_g, c_h, c_measurement_date>>

\* a HoiChannels data line under header
HoiLine(header, id, mode, center) ==
    [k \in 1..Len(header) |->
        CASE header[k] = c_id -> id
          [] header[k] = c_mode -> mode
          [] header[k] = c_if_center -> center
          [] header[k] = c_background_mode -> <<"1">>
          [] header[k] = c_min_height -> <<"5", "0">>
          [] header[k] = c_max_height -> <<"8", "0", "0", "0">>
          [] OTHER -> <<"old">> \o header[k]]

OldPolarLine == <<T9, T7, <<"1">>, <<"0">>, <<"01/01/2020 00:00">>>>

Preamble == << <<<<"HoiSystem">>>>, <<<<"name">>, <<"height">>>>,
               <<<<"lidar">>, <<"9", "3">>>>, BlankLine >>

Trailer == << <<<<"usecase">>, <<"product">>>>, <<T7, <<"1", "2">>>>, BlankLine >>

\* a configuration document: sections in the order of the service's export.
\* hoi, polar, products: the marker line, or <<>> for a document without it;
\* sep: lines between the HoiChannels rows and the next marker;
\* between: lines between the polarization rows and the Products marker.
Document(pre, hoi, header, rows, sep, polar, prows, between, products, tail) ==
    pre
    \o hoi \o <<header>> \o rows \o sep
    \o polar \o <<PolarHeader>> \o prows \o <<BlankLine>>
    \o between
    \o products \o tail

StdDocument(header, rows) ==
    Document(Preamble, << <<HoiChannels>> >>, header, rows, <<BlankLine>>,
             << <<PolarizationCrosstalkParameter>> >>, <<OldPolarLine>>, <<>>,
             << <<Products>> >>, Trailer)

\* the first n members of s
Prefix(s, n) == SubSeq(s, 1, Min2(n, Len(s)))

\* family 1: rows and identifiers that compete for each other
MatchingRows ==
    {HoiLine(HoiHeader, r[1], r[2], r[3]) :
        r \in {<<T7, an, W531_98>>, <<T8, an, W532_5>>,
               <<T7, pcnt, W531_98>>, <<T8, an, W533_5>>}}

MatchingInputs ==
    {[lines |-> StdDocument(HoiHeader, rows),
      channel_data |-> [k \in 1..Len(aids) |-> DefaultRecord(aids[k])],
      depol_date |-> Date] :
        rows \in SeqsUpTo(MatchingRows, MaxRows),
        aids \in DistinctSeqs({ID_an532, ID_an532s, ID_pc532}, MaxRecords)}

\* family 2: report cells present, missing or without a background row;
\* rows with a repeated id, a word for a wavelength, and none at all
MergeRecords ==
    {Record(ID_an532, G1_50, H0_98, dead, minh, bg) :
        dead \in {None, <<"4">>},
        minh \in {None, <<"1", "0", "0">>},
        bg \in {None, PreTrigger, <<"Trigger">>}}

MergeRowsOf(header, n) ==
    [k \in 1..n |->
        HoiLine(header, IF k = 3 THEN T7 ELSE Digits(6 + k), an,
                IF k = 2 THEN Wword ELSE W532)]

MergeInputs ==
    {[lines |-> Document(Preamble, << <<HoiChannels>> >>, header,
                         MergeRowsOf(header, n), sep,
                         << <<PolarizationCrosstalkParameter>> >>, <<>>, <<>>,
                         << <<Products>> >>, Trailer),
      channel_data |->
         Prefix(<<DefaultRecord(ID_bad), rec, DefaultRecord(ID_an534),
                  DefaultRecord(ID_an532s)>>, m),
      depol_date |-> Date] :
        header \in {HoiHeader, HoiHeaderWithHeights},
        n \in 0..MaxRows,
        sep \in {<<BlankLine>>, <<>>},
        rec \in MergeRecords,
        m \in 0..MaxRecords}

\* family 3: gain ratios present, missing, empty or blank
PolarRecords ==
    {Record(aid, g, h, <<"4">>, <<"1", "0", "0">>, None) :
        aid \in {ID_an532, ID_an532s},
        g \in {None, Empty, Blank1, G1_50},
        h \in {None, Empty, H0_98}}

PolarInputs ==
    {[lines |-> StdDocument(HoiHeader,
                   <<HoiLine(HoiHeader, T7, an, W532), HoiLine(HoiHeader, T8, an, W532)>>),
      channel_data |-> recs,
      depol_date |-> date] :
        recs \in {r \in SeqsUpTo(PolarRecords, MaxRecords) : DistinctAids(r)},
        date \in {None, Date}}

\* family 4: the shape of the document
OtherSection == << <<<<"HoiTelecovers">>>>, <<<<"id">>, <<"name">>>>,
                   <<T7, <<"north">>>>, BlankLine >>

ShapeInputs ==
    {[lines |-> Document(pre, hoi, HoiHeader, rows, <<BlankLine>>, polar, prows,
                         between, products, tail),
      channel_data |-> <<DefaultRecord(ID_an532)>>,
      depol_date |-> Date] :
        pre \in {<<>>, Preamble},
        hoi \in {<<>>, << <<HoiChannels>> >>, << <<HoiChannels \o <<Space>>>> >>},
        rows \in {<<>>, <<HoiLine(HoiHeader, T7, an, W532)>>},
        polar \in {<<>>, << <<PolarizationCrosstalkParameter>> >>},
        prows \in {<<>>, <<OldPolarLine>>},
        between \in {<<>>, OtherSection},
        products \in {<<>>, << <<Products>> >>, << <<Products \o <<Space>>>> >>},
        tail \in {<<>>, Trailer}}

Inputs == MatchingInputs \cup MergeInputs \cup PolarInputs \cup ShapeInputs

Init ==
    /\ \E inp \in Inputs :
          /\ lines = inp.lines
          /\ channel_data = inp.channel_data
          /\ depol_date = inp.depol_date
    /\ pc = "read"
    /\ hoi_start = -1
    /\ polar_start = -1
    /\ hoi_columns = <<>>
    /\ original_hoi_df = <<>>
    /\ polar_columns = <<>>
    /\ polar_df = <<>>
    /\ i = 1
    /\ atlas_to_csv_id = <<>>
    /\ used_csv_ids = {}
    /\ log_lines = <<>>
    /\ matched_data = <<>>
    /\ updated_hoi_df = <<>>
    /\ polar_df_clean = <<>>
    /\ output_file = Absent

Next ==
    \/ ReadCsvNoHoi
    \/ ReadCsvNoPolar
    \/ ReadCsv
    \/ MatchSkip
    \/ MatchKeyError
    \/ MatchFound
    \/ MatchNone
    \/ UpdateHoiChannels
    \/ PolarizationSection
    \/ SaveOutput
    \/ SaveOutputNoProducts
    \/ CleanupPass

Spec == Init /\ [][Next]_vars

----------------------------------------------------------------------------
(* Reading a document by its section grammar: marker line, column line,     *)
(* data lines, up to the next marker line.  Used to state the properties.   *)

SectionNames ==
    {HoiChannels, PolarizationCrosstalkParameter, Products,
     <<"HoiSystem">>, <<"HoiTelecovers">>}

IsMarker(line) == \E n \in SectionNames : LineStrip(line) = <<n>>

\* 1-based position of the section's marker line, 0 when there is none
MarkerAt(doc, name) ==
    LET hits == {k \in 1..Len(doc) : LineStrip(doc[k]) = <<name>>}
    IN  IF hits = {} THEN 0 ELSE First(hits)

\* 1-based position of the last line of the section whose marker is at k
SectionEnd(doc, k) ==
    LET later == {j \in (k + 1)..Len(doc) : IsMarker(doc[j])}
    IN  IF later = {} THEN Len(doc) ELSE First(later) - 1

SectionColumns(doc, name) ==
    LET h == LineStrip(doc[MarkerAt(doc, name) + 1])
    IN  [k \in 1..Len(h) |-> Strip(h[k])]

\* the data rows of a section, each a sequence of cells
SectionRows(doc, name) ==
    LET k == MarkerAt(doc, name)
    IN  IF k = 0 THEN <<>>
        ELSE SelectSeq(SubSeq(doc, k + 2, SectionEnd(doc, k)), NonBlank)

\* the cell of a data row under a column, None when the row has no such cell
CellOf(columns, row, col) ==
    LET at == IndexOf(columns, col) + 1
    IN  IF at = 0 \/ at > Len(row) THEN None ELSE LineStrip(row)[at]

Cell(doc, name, row, col) == CellOf(SectionColumns(doc, name), row, col)

SectionIds(doc, name) ==
    LET rows == SectionRows(doc, name)
        cols == SectionColumns(doc, name)
    IN  [k \in 1..Len(rows) |-> CellOf(cols, rows[k], c_id)]

\* the lines outside the HoiChannels and polarization sections, in order
InMutatedSection(doc, k) ==
    \E name \in {HoiChannels, PolarizationCrosstalkParameter} :
        /\ MarkerAt(doc, name) # 0
        /\ MarkerAt(doc, name) <= k
        /\ k <= SectionEnd(doc, MarkerAt(doc, name))

RECURSIVE UnrelatedFrom(_, _)
UnrelatedFrom(doc, k) ==
    IF k > Len(doc) THEN <<>>
    ELSE (IF InMutatedSection(doc, k) THEN <<>> ELSE <<doc[k]>>)
         \o UnrelatedFrom(doc, k + 1)

UnrelatedLines(doc) == UnrelatedFrom(doc, 1)

\* the lines from the line "Products\n" to the end
FromProducts(doc) ==
    IF IndexOf(doc, <<Products>>) = -1 THEN <<>>
    ELSE SubSeq(doc, IndexOf(doc, <<Products>>) + 1, Len(doc))

Written == pc \in {"cleanup", "done"}

Targets == {atlas_to_csv_id[a] : a \in DOMAIN atlas_to_csv_id}

----------------------------------------------------------------------------
(* The matching loop                                                        *)

\* C1: at every point of the matching loop and after it, no two identifiers
\* of the correspondence map to the same existing-row id (the correspondence
\* is a function, so an identifier has at most one entry).
C1_Injectivity ==
    \A a, b \in DOMAIN atlas_to_csv_id :
        atlas_to_csv_id[a] = atlas_to_csv_id[b] => a = b

\* two identifiers of the same mode and wavelength both found a row
C1_Witness ==
    /\ {ID_an532, ID_an532s} \subseteq DOMAIN atlas_to_csv_id
    /\ pc = "done"

\* the candidates of the claim, for the record the loop is at
CandidateRows ==
    LET aid == channel_data[i].aid
    IN  {k \in 1..Len(original_hoi_df) :
            /\ original_hoi_df[k][c_mode] = (IF aid[7] = "a" THEN an ELSE pcnt)
            /\ normalize_wavelength(original_hoi_df[k][c_if_center])
                 = PyInt(SubSeq(aid, 1, 4))
            /\ original_hoi_df[k][c_id] \notin used_csv_ids}

C9_Step ==
    ( /\ pc = "match"
      /\ i <= Len(channel_data)
      /\ i' = i + 1
      /\ PyInt(SubSeq(channel_data[i].aid, 1, 4)) # -1 )
    =>
    LET aid == channel_data[i].aid
    IN  IF CandidateRows # {}
        THEN LET k  == CHOOSE k \in CandidateRows : \A j \in CandidateRows : k <= j
                 id == original_hoi_df[k][c_id]
             IN  /\ DOMAIN atlas_to_csv_id' = DOMAIN atlas_to_csv_id \cup {aid}
                 /\ atlas_to_csv_id'[aid] = id
                 /\ \A a \in DOMAIN atlas_to_csv_id \ {aid} :
                       atlas_to_csv_id'[a] = atlas_to_csv_id[a]
                 /\ used_csv_ids' = used_csv_ids \cup {id}
                 /\ log_lines' = Append(log_lines, LogEntry("Matched", aid, id))
        ELSE /\ atlas_to_csv_id' = atlas_to_csv_id
             /\ used_csv_ids' = used_csv_ids
             /\ log_lines' = Append(log_lines, LogEntry("Not matched", aid, None))

----------------------------------------------------------------------------
(* The HoiChannels section of the output                                    *)

OutLines == output_file.lines

InRows == SectionRows(lines, HoiChannels)
OutRows == SectionRows(OutLines, HoiChannels)

InCell(k, col) == Cell(lines, HoiChannels, InRows[k], col)
OutCell(k, col) == Cell(OutLines, HoiChannels, OutRows[k], col)

InColumns ==
    {SectionColumns(lines, HoiChannels)[k] :
        k \in 1..Len(SectionColumns(lines, HoiChannels))}

\* the line right before the polarization marker is a data row of HoiChannels
NoSeparator ==
    LET h == MarkerAt(lines, HoiChannels)
        p == MarkerAt(lines, PolarizationCrosstalkParameter)
    IN  h + 2 <= p - 1 /\ NonBlank(lines[p - 1])

\* C2 as stated: once the output is written, the row ids of its HoiChannels
\* section are the row ids of the data rows of the input's HoiChannels
\* section, same count and order.
C2_OrderPreservation ==
    Written => SectionIds(OutLines, HoiChannels) = SectionIds(lines, HoiChannels)

\* C2 amended: the same, except that the line right before the polarization
\* marker is always taken for the separator; when it is a data row, that last
\* row is missing from the output and the others keep their order.
C2_OrderPreservedUpToSeparator ==
    Written =>
        LET inids == SectionIds(lines, HoiChannels)
        IN  SectionIds(OutLines, HoiChannels) =
                IF NoSeparator THEN SubSeq(inids, 1, Len(inids) - 1) ELSE inids

\* two rows written with a separator in the input, the second one matched
\* and the first one not
C2_Witness ==
    /\ pc = "done"
    /\ ~NoSeparator
    /\ Len(SectionIds(OutLines, HoiChannels)) = 2
    /\ OutCell(2, c_id) \in Targets
    /\ OutCell(1, c_id) \notin Targets

\* C3: once the output is written, a HoiChannels row whose id is no target of
\* the correspondence has, under every column of the input, the cell it had
\* in the input.
C3_NonDestructiveMerge ==
    Written =>
        LET incols  == SectionColumns(lines, HoiChannels)
            outcols == SectionColumns(OutLines, HoiChannels)
            inrows  == InRows
            outrows == OutRows
            targets == Targets
        IN  \A k \in 1..Len(outrows) :
                CellOf(incols, inrows[k], c_id) \notin targets =>
                    \A j \in 1..Len(incols) :
                        CellOf(outcols, outrows[k], incols[j])
                            = CellOf(incols, inrows[k], incols[j])

\* an unmatched row written next to a matched one
C3_Witness ==
    /\ pc = "done"
    /\ \E k \in 1..Len(OutRows) : InCell(k, c_id) \notin Targets
    /\ \E k \in 1..Len(OutRows) : InCell(k, c_id) \in Targets

\* the fields the merge targets: column of the row, column of the report
TargetedFields ==
    {<<c_if_center, "Interference filter center">>,
     <<c_if_fwhm, "Interference filter FWHM">>,
     <<c_emission_wavelength, "Emission Wavelength">>,
     <<c_dead_time, "Dead time">>,
     <<c_first_signal_rangebin, "First signal rangebin">>,
     <<c_trigger_delay, "Trigger delay">>,
     <<c_min_height, "Minimum channel height">>,
     <<c_max_height, "Maximum channel height">>}

\* the report record matched to the row id
RecordFor(id) ==
    LET k == CHOOSE k \in 1..Len(channel_data) :
                /\ channel_data[k].aid \in DOMAIN atlas_to_csv_id
                /\ atlas_to_csv_id[channel_data[k].aid] = id
    IN  channel_data[k].match

Present(match, key) == key \in DOMAIN match /\ match[key] # None

\* C10 as stated: once the output is written, every targeted field of a
\* matched row holds the report's value when that value is present and the
\* row's original cell otherwise (the empty cell for a column the input did
\* not have), and every other column of the input, the background-mode flag
\* apart, holds its original cell.
C10_MergeRule ==
    Written =>
        \A k \in 1..Len(OutRows) :
            InCell(k, c_id) \in Targets =>
                /\ \A f \in TargetedFields :
                      OutCell(k, f[1]) =
                         IF Present(RecordFor(InCell(k, c_id)), f[2])
                         THEN RecordFor(InCell(k, c_id))[f[2]]
                         ELSE CsvCell(InCell(k, f[1]))
                /\ \A c \in InColumns \ ({f[1] : f \in TargetedFields} \cup {c_background_mode}) :
                      OutCell(k, c) = InCell(k, c)

----------------------------------------------------------------------------
(* The polarization section of the output                                   *)

PolarRows == SectionRows(OutLines, PolarizationCrosstalkParameter)

PolarCell(k, col) == Cell(OutLines, PolarizationCrosstalkParameter, PolarRows[k], col)

\* G and H both given and not blank
Complete(match) ==
    /\ Present(match, "G") /\ Strip(match["G"]) # Empty
    /\ Present(match, "H") /\ Strip(match["H"]) # Empty

RowsFor(id) == {k \in 1..Len(PolarRows) : PolarCell(k, c_channel_id) = id}

\* C4 as stated: in the final output every polarization row has a non-empty
\* g and a non-empty h, each record that matched and has complete G and H has
\* exactly one row, and no other record has a row.
C4_PolarizationCompleteness ==
    pc = "done" =>
        /\ \A k \in 1..Len(PolarRows) :
              /\ Strip(PolarCell(k, c_g)) # Empty
              /\ Strip(PolarCell(k, c_h)) # Empty
        /\ \A r \in 1..Len(channel_data) :
              LET rec == channel_data[r]
              IN  IF rec.aid \in DOMAIN atlas_to_csv_id
                  THEN Cardinality(RowsFor(atlas_to_csv_id[rec.aid])) =
                          (IF Complete(rec.match) THEN 1 ELSE 0)
                  ELSE TRUE
        /\ Len(PolarRows) =
              Cardinality({r \in 1..Len(channel_data) :
                  /\ channel_data[r].aid \in DOMAIN atlas_to_csv_id
                  /\ Complete(channel_data[r].match)})

\* C8 as stated: the cleanup pass applied to the file the cleanup pass has
\* written leaves it as it is.
C8_IdempotentCleanup ==
    pc = "done" => Cleanup(OutLines) = OutLines

----------------------------------------------------------------------------
(* The rest of the document                                                 *)

\* C5: after the assembly write and after the cleanup rewrite, the output
\* from its "Products" line to its end is the input from its "Products" line
\* to its end.
C5_ProductsRemainder ==
    Written => FromProducts(OutLines) = FromProducts(lines)

\* a written file whose input had lines after the Products marker and a
\* section between the polarization rows and that marker
C5_Witness ==
    /\ pc = "done"
    /\ Len(FromProducts(lines)) > 1
    /\ MarkerAt(lines, <<"HoiTelecovers">>) # 0

\* C6 as stated: the lines of the input outside the HoiChannels and the
\* polarization sections are, in order, the lines of the output outside those
\* two sections.
C6_UnrelatedSectionsPreserved ==
    Written => UnrelatedLines(OutLines) = UnrelatedLines(lines)

\* C7 as stated: a run that ends in a fatal error has not created or written
\* the output file.
C7_NoPartialOutput ==
    pc = "fatal" => ~output_file.exists

====
